---- MODULE Spec2Model ----
(***************************************************************************)
(* Model of scripts/discovery/dependency_mapper.py (PodShift): the         *)
(* DependencyMapper pipeline                                               *)
(*   analyze_container_dependencies -> analyze_compose_dependencies ->     *)
(*   build_dependency_graph (_detect_cycles, _calculate_startup_order) ->  *)
(*   generate_migration_sequence.                                          *)
(*                                                                         *)
(* A Python dict is modelled as a record [keys, val]: keys is the sequence *)
(* of keys in insertion order, val maps every name to its value ({} for a  *)
(* name that is not a key).  Iterating a Python set has no fixed order, so *)
(* every such iteration is a nondeterministic choice of order.             *)
(***************************************************************************)
EXTENDS Integers, Sequences, FiniteSets, Bags, TLC

\* Container / service names that can occur in one run.
Names == {"A", "B", "C"}

\* The code treats every name alike, so the containers the daemon lists are
\* named in the order of the listing: the first one is "A".
ListingOrder == <<"A", "B", "C">>

\* Bound on the number of (source, target) pairs recorded by the analysis.
MaxFacts == 3

\* Every string the analysis can record as a source or a target: a name, or
\* the empty string that a malformed link yields.
Idents == Names \cup {""}

VARIABLES
    pc,                      \* position in run_full_analysis
    listing,                 \* containers the daemon listed, still to analyze
    containers,              \* keys of self.dependencies["containers"], in order
    container_dependencies,  \* self.container_dependencies
    network_dependencies,    \* self.network_dependencies
    volume_dependencies,     \* self.volume_dependencies
    compose_dependencies,    \* self.compose_dependencies
    all_dependencies,        \* local of build_dependency_graph
    nodes,                   \* dependency_graph["nodes"]  (list, as a bag)
    edges,                   \* dependency_graph["edges"]  (list, as a bag)
    keysLeft,                \* rest of "for node in dependencies.keys()"
    stack,                   \* call stack of dfs: frames [node, todo]
    cycles, visited, rec_stack, path,      \* locals of _detect_cycles
    in_degree, graph, queue, startup_order,\* locals of _calculate_startup_order
    phases, parallel_groups, sequential_order, \* migration_sequence
    estimated_duration       \* migration_sequence["estimated_duration"]

vars == <<pc, listing, containers, container_dependencies,
          network_dependencies, volume_dependencies, compose_dependencies,
          all_dependencies, nodes, edges, keysLeft, stack, cycles, visited,
          rec_stack, path, in_degree, graph, queue, startup_order,
          phases, parallel_groups, sequential_order, estimated_duration>>

----------------------------------------------------------------------------
(* Generic helpers *)

Range(s) == {s[i] : i \in 1..Len(s)}

\* All orders in which the elements of a set can be iterated.
Perms(S) == {s \in [1..Cardinality(S) -> S] : Range(s) = S}

Max(S) == CHOOSE x \in S : \A y \in S : y <= x

Min(S) == CHOOSE x \in S : \A y \in S : x <= y

\* sorted(...) of a set of integers
RECURSIVE Sorted(_)
Sorted(S) == IF S = {} THEN <<>> ELSE <<Min(S)>> \o Sorted(S \ {Min(S)})

\* list.index(x): position of the first occurrence
Index(s, x) == Min({i \in 1..Len(s) : s[i] = x})

----------------------------------------------------------------------------
(* defaultdict(set) *)

EmptyDict == [keys |-> <<>>, val |-> [n \in Idents |-> {}]]

\* dependencies.get(k, [])
Get(d, k) == IF k \in Range(d.keys) THEN d.val[k] ELSE {}

\* variant: the key is recorded again on every update
DictUpdateDup(d, k, v) ==
    [keys |-> Append(d.keys, k), val |-> [d.val EXCEPT ![k] = @ \cup v]]

\* d[k].update(v) on a defaultdict(set): the key is created on first access
DictUpdate(d, k, v) ==
    [keys |-> IF k \in Range(d.keys) THEN d.keys ELSE Append(d.keys, k),
     val  |-> [d.val EXCEPT ![k] = @ \cup v]]

\* a loop "for x in v: d[k].add(x)": no key is created when v is empty
DictAddAll(d, k, v) == IF v = {} THEN d ELSE DictUpdate(d, k, v)

\* for k, deps in src.items(): acc[k].update(deps)
RECURSIVE MergeKeys(_, _, _)
MergeKeys(acc, src, ks) ==
    IF ks = <<>> THEN acc
    ELSE MergeKeys(DictUpdate(acc, Head(ks), src.val[Head(ks)]), src, Tail(ks))

MergeInto(acc, src) == MergeKeys(acc, src, src.keys)

\* size of one map: its recorded (source, target) pairs, a key that has no
\* target counting for one
RECURSIVE SumCard(_, _)
SumCard(d, S) ==
    IF S = {} THEN 0
    ELSE LET k == CHOOSE x \in S : TRUE
         IN (IF d.val[k] = {} THEN 1 ELSE Cardinality(d.val[k]))
              + SumCard(d, S \ {k})

NumPairs(d) == SumCard(d, Range(d.keys))

NumFacts == NumPairs(container_dependencies) + NumPairs(network_dependencies)
            + NumPairs(volume_dependencies) + NumPairs(compose_dependencies)

----------------------------------------------------------------------------
(* build_dependency_graph: merge, nodes, edges *)

MergeDependencies ==
    MergeInto(MergeInto(MergeInto(MergeInto(EmptyDict,
        container_dependencies), network_dependencies),
        volume_dependencies), compose_dependencies)

AllNodes(d) == Range(d.keys) \cup UNION {d.val[k] : k \in Range(d.keys)}

\* for source, targets in all_dependencies.items(): for target in targets:
\*     edges.append({"from": source, "to": target, ...})
RECURSIVE EdgeList(_, _)
EdgeList(d, ks) ==
    IF ks = <<>> THEN EmptyBag
    ELSE SetToBag({<<Head(ks), t>> : t \in d.val[Head(ks)]})
         (+) EdgeList(d, Tail(ks))

----------------------------------------------------------------------------
(* _detect_cycles *)

\* variant: the whole path is stored, not the slice from the node
CycleOfWholePath(p, node) == p \o <<node>>

\* cycle = path[cycle_start:] + [node]
CycleOf(p, node) == SubSeq(p, Index(p, node), Len(p)) \o <<node>>

\* variant: the visited test comes before the rec_stack test
DfsCallVisitedFirst(node, stk) ==
    IF node \in visited
    THEN /\ stack' = stk
         /\ UNCHANGED <<cycles, visited, rec_stack, path>>
    ELSE /\ visited' = visited \cup {node}
         /\ rec_stack' = rec_stack \cup {node}
         /\ path' = Append(path, node)
         /\ stack' = Append(stk, [node |-> node,
                                  todo |-> Get(all_dependencies, node)])
         /\ UNCHANGED cycles

\* variant: on a node that is on the stack the call is made again and again
DfsCallSpin(node, stk) ==
    IF node \in rec_stack
    THEN UNCHANGED <<stack, cycles, visited, rec_stack, path>>
    ELSE IF node \in visited
    THEN /\ stack' = stk
         /\ UNCHANGED <<cycles, visited, rec_stack, path>>
    ELSE /\ visited' = visited \cup {node}
         /\ rec_stack' = rec_stack \cup {node}
         /\ path' = Append(path, node)
         /\ stack' = Append(stk, [node |-> node,
                                  todo |-> Get(all_dependencies, node)])
         /\ UNCHANGED cycles

\* variant: rec_stack.add(node) is left out
DfsCallNoRecStack(node, stk) ==
    IF node \in rec_stack
    THEN /\ cycles' = Append(cycles, CycleOf(path, node))
         /\ stack' = stk
         /\ UNCHANGED <<visited, rec_stack, path>>
    ELSE IF node \in visited
    THEN /\ stack' = stk
         /\ UNCHANGED <<cycles, visited, rec_stack, path>>
    ELSE /\ visited' = visited \cup {node}
         /\ rec_stack' = rec_stack
         /\ path' = Append(path, node)
         /\ stack' = Append(stk, [node |-> node,
                                  todo |-> Get(all_dependencies, node)])
         /\ UNCHANGED cycles

\* variant: the visited test is left out
DfsCallNoVisitedTest(node, stk) ==
    IF node \in rec_stack
    THEN /\ cycles' = Append(cycles, CycleOf(path, node))
         /\ stack' = stk
         /\ UNCHANGED <<visited, rec_stack, path>>
    ELSE /\ visited' = visited \cup {node}
         /\ rec_stack' = rec_stack \cup {node}
         /\ path' = Append(path, node)
         /\ stack' = Append(stk, [node |-> node,
                                  todo |-> Get(all_dependencies, node)])
         /\ UNCHANGED cycles

\* One call dfs(node), made with the caller's frames stk on the call stack.
DfsCall(node, stk) ==
    IF node \in rec_stack
    THEN /\ cycles' = Append(cycles, CycleOf(path, node))
         /\ stack' = stk
         /\ UNCHANGED <<visited, rec_stack, path>>
    ELSE IF node \in visited
    THEN /\ stack' = stk
         /\ UNCHANGED <<cycles, visited, rec_stack, path>>
    ELSE /\ visited' = visited \cup {node}
         /\ rec_stack' = rec_stack \cup {node}
         /\ path' = Append(path, node)
         /\ stack' = Append(stk, [node |-> node,
                                  todo |-> Get(all_dependencies, node)])
         /\ UNCHANGED cycles

----------------------------------------------------------------------------
(* _calculate_startup_order *)

\* in_degree[source] += 1 for every target of source
InDegree(d) == [n \in AllNodes(d) |-> Cardinality(Get(d, n))]

\* variant: the adjacency is built in the direction of the edges
DependentsForward(d) ==
    [n \in AllNodes(d) |-> SelectSeq(d.keys, LAMBDA s : s \in Get(d, n))]

\* graph[target].append(source), sources taken in the order of the keys
Dependents(d) ==
    [n \in AllNodes(d) |-> SelectSeq(d.keys, LAMBDA s : n \in d.val[s])]

\* variant: every dependent is enqueued, whatever its in-degree
RECURSIVE ReleaseAll(_, _, _)
ReleaseAll(deg, q, nbrs) ==
    IF nbrs = <<>> THEN [deg |-> deg, q |-> q]
    ELSE LET n  == Head(nbrs)
             d2 == [deg EXCEPT ![n] = @ - 1]
         IN ReleaseAll(d2, Append(q, n), Tail(nbrs))

\* variant: a ready node goes to the front of the queue
RECURSIVE ReleaseFront(_, _, _)
ReleaseFront(deg, q, nbrs) ==
    IF nbrs = <<>> THEN [deg |-> deg, q |-> q]
    ELSE LET n  == Head(nbrs)
             d2 == [deg EXCEPT ![n] = @ - 1]
         IN ReleaseFront(d2, IF d2[n] = 0 THEN <<n>> \o q ELSE q, Tail(nbrs))

\* for neighbor in graph[node]: in_degree[neighbor] -= 1; enqueue at 0
RECURSIVE Release(_, _, _)
Release(deg, q, nbrs) ==
    IF nbrs = <<>> THEN [deg |-> deg, q |-> q]
    ELSE LET n  == Head(nbrs)
             d2 == [deg EXCEPT ![n] = @ - 1]
         IN Release(d2, IF d2[n] = 0 THEN Append(q, n) ELSE q, Tail(nbrs))

----------------------------------------------------------------------------
(* generate_migration_sequence *)

\* the level of an already placed container: the key lvl of
\* dependency_levels with dep in dependency_levels[lvl]
LevelOf(levels, dep) ==
    CHOOSE lvl \in DOMAIN levels : dep \in Range(levels[lvl])

\* the dependency map consulted when a node is levelled
LevelDeps(node) == Get(container_dependencies, node)

\* variant: a dependent is placed two levels above its dependency
NodeLevelSkip(node, levels, processed) ==
    Max({0} \cup {LevelOf(levels, dep) + 2 :
                      dep \in LevelDeps(node) \cap processed})

\* level = max(level, lvl + 1) over the processed dependencies, from 0
NodeLevel(node, levels, processed) ==
    Max({0} \cup {LevelOf(levels, dep) + 1 :
                      dep \in LevelDeps(node) \cap processed})

\* dependency_levels[level].append(node) on a defaultdict(list)
LevelAppend(levels, lvl, node) ==
    IF lvl \in DOMAIN levels
    THEN [levels EXCEPT ![lvl] = Append(@, node)]
    ELSE (lvl :> <<node>>) @@ levels

\* for node in startup_order: ... dependency_levels[level].append(node)
RECURSIVE AssignLevels(_, _, _)
AssignLevels(order, levels, processed) ==
    IF order = <<>> THEN levels
    ELSE LET node == Head(order)
         IN AssignLevels(Tail(order),
                LevelAppend(levels, NodeLevel(node, levels, processed), node),
                processed \cup {node})

DependencyLevels(order) == AssignLevels(order, <<>>, {})

\* A phase dict.  "special" and "cycles" are keys of the cycle phase only;
\* the other phases carry the defaults of phase.get(...): FALSE and <<>>.
LevelPhase(lvl, cs) ==
    [name |-> <<"Phase", lvl + 1>>, containers |-> cs,
     parallel |-> Len(cs) > 1, special |-> FALSE, cycles |-> <<>>]

\* variant: only the containers that are graph nodes
FallbackPhaseGraphNodes(cs) ==
    [name |-> <<"Phase", 1>>,
     containers |-> SelectSeq(cs, LAMBDA c : c \in AllNodes(all_dependencies)),
     parallel |-> FALSE, special |-> FALSE, cycles |-> <<>>]

FallbackPhase(cs) ==
    [name |-> <<"Phase", 1>>, containers |-> cs,
     parallel |-> FALSE, special |-> FALSE, cycles |-> <<>>]

\* variant: the parallel flag of a level phase
CyclePhaseParallel(cs, cyc) ==
    [name |-> <<"Phase 0 - Cycle Resolution">>, containers |-> cs,
     parallel |-> Len(cs) > 1, special |-> TRUE, cycles |-> cyc]

CyclePhase(cs, cyc) ==
    [name |-> <<"Phase 0 - Cycle Resolution">>, containers |-> cs,
     parallel |-> FALSE, special |-> TRUE, cycles |-> cyc]

\* for level in sorted(dependency_levels.keys()): phases.append(...)
RECURSIVE LevelPhases(_, _)
LevelPhases(levels, lvls) ==
    IF lvls = <<>> THEN <<>>
    ELSE <<LevelPhase(Head(lvls), levels[Head(lvls)])>>
         \o LevelPhases(levels, Tail(lvls))

\* variant: the record carries the level, not the phase number
RECURSIVE ParallelGroupsZeroIndexed(_, _)
ParallelGroupsZeroIndexed(levels, lvls) ==
    IF lvls = <<>> THEN <<>>
    ELSE (IF Len(levels[Head(lvls)]) > 1
          THEN <<[phase |-> Head(lvls),
                  containers |-> levels[Head(lvls)],
                  reason |-> "No interdependencies within group"]>>
          ELSE <<>>)
         \o ParallelGroupsZeroIndexed(levels, Tail(lvls))

\* if len(containers) > 1: parallel_groups.append(...)
RECURSIVE ParallelGroups(_, _)
ParallelGroups(levels, lvls) ==
    IF lvls = <<>> THEN <<>>
    ELSE (IF Len(levels[Head(lvls)]) > 1
          THEN <<[phase |-> Head(lvls) + 1,
                  containers |-> levels[Head(lvls)],
                  reason |-> "No interdependencies within group"]>>
          ELSE <<>>)
         \o ParallelGroups(levels, Tail(lvls))

\* cycle_containers: for cycle in cycles: cycle_containers.update(cycle)
CycleContainers(cyc) == UNION {Range(cyc[i]) : i \in 1..Len(cyc)}

----------------------------------------------------------------------------
(* The same algorithms run with every iteration taken in name order: one   *)
(* of the runs the code can make, as a function of the recorded facts.     *)

\* the elements of a set of identifiers in name order; the empty string
\* comes before every name
SortedNames(S) == SelectSeq(<<"">> \o ListingOrder, LAMBDA n : n \in S)

\* the dict d with its keys in name order
KeySorted(d) == [keys |-> SortedNames(Range(d.keys)), val |-> d.val]

\* dfs(node) run to its return; st holds cycles, visited, rec_stack, path
RECURSIVE RefDfs(_, _, _)
RECURSIVE RefVisitAll(_, _, _)
RefDfs(d, node, st) ==
    IF node \in st.rec_stack
    THEN [st EXCEPT !.cycles = Append(@, CycleOf(st.path, node))]
    ELSE IF node \in st.visited THEN st
    ELSE LET st1 == [cycles |-> st.cycles,
                     visited |-> st.visited \cup {node},
                     rec_stack |-> st.rec_stack \cup {node},
                     path |-> Append(st.path, node)]
             st2 == RefVisitAll(d, SortedNames(Get(d, node)), st1)
         IN [st2 EXCEPT !.rec_stack = @ \ {node},
                        !.path = SubSeq(@, 1, Len(@) - 1)]

\* for neighbor in dependencies.get(node, []): dfs(neighbor)
RefVisitAll(d, ns, st) ==
    IF ns = <<>> THEN st
    ELSE RefVisitAll(d, Tail(ns), RefDfs(d, Head(ns), st))

\* for node in dependencies.keys(): if node not in visited: dfs(node)
RECURSIVE RefDetectLoop(_, _, _)
RefDetectLoop(d, ks, st) ==
    IF ks = <<>> THEN st
    ELSE RefDetectLoop(d, Tail(ks),
             IF Head(ks) \in st.visited THEN st ELSE RefDfs(d, Head(ks), st))

RefDetectCycles(d) ==
    RefDetectLoop(d, SortedNames(Range(d.keys)),
        [cycles |-> <<>>, visited |-> {}, rec_stack |-> {}, path |-> <<>>]
    ).cycles

\* while queue: ...
RECURSIVE RefKahnLoop(_, _, _, _)
RefKahnLoop(deg, g, q, out) ==
    IF q = <<>> THEN out
    ELSE LET r == Release(deg, Tail(q), g[Head(q)])
         IN RefKahnLoop(r.deg, g, r.q, Append(out, Head(q)))

RefStartupOrder(d) ==
    RefKahnLoop(InDegree(d), Dependents(KeySorted(d)),
                SortedNames({n \in AllNodes(d) : InDegree(d)[n] = 0}), <<>>)

\* the phase list generate_migration_sequence builds from a startup order
\* and a cycle list
RefPhases(order, cyc) ==
    LET levels == DependencyLevels(order)
        base   == IF order = <<>>
                  THEN <<FallbackPhase(containers)>>
                  ELSE LevelPhases(levels, Sorted(DOMAIN levels))
        cc     == CycleContainers(cyc)
    IN IF cyc # <<>> /\ cc # {}
       THEN <<CyclePhase(SortedNames(cc), cyc)>> \o base
       ELSE base

----------------------------------------------------------------------------
(* _estimate_migration_duration.  Times that are floats in the code are    *)
(* kept in tenths of a minute, the savings in tenths of a percent; the     *)
(* *_hours fields are not modelled.                                        *)

\* base_time_per_container = 5  (minutes)
BaseTimePerContainer == 5

\* parallel_efficiency = 0.7, in tenths
ParallelEfficiency10 == 7

\* total_containers = sum(len(phase["containers"]) for phase in phases)
RECURSIVE TotalContainers(_)
TotalContainers(phs) ==
    IF phs = <<>> THEN 0
    ELSE Len(Head(phs).containers) + TotalContainers(Tail(phs))

\* variant: the two branches are exchanged
PhaseTime10Swapped(phase) ==
    IF ~phase.parallel
    THEN BaseTimePerContainer * ParallelEfficiency10
    ELSE Len(phase.containers) * BaseTimePerContainer * 10

\* phase_time of one phase, in tenths of a minute
PhaseTime10(phase) ==
    IF phase.parallel
    THEN BaseTimePerContainer * ParallelEfficiency10
    ELSE Len(phase.containers) * BaseTimePerContainer * 10

\* parallel_minutes, in tenths of a minute
RECURSIVE ParallelMinutes10(_)
ParallelMinutes10(phs) ==
    IF phs = <<>> THEN 0
    ELSE PhaseTime10(Head(phs)) + ParallelMinutes10(Tail(phs))

\* variant: rounded to the nearest minute
ToIntRounded(x10) == (x10 + 5) \div 10

\* int(parallel_minutes) of a value >= 0 given in tenths of a minute
ToInt(x10) == x10 \div 10

(* The savings are computed in binary floating point (IEEE-754 doubles):   *)
(* every operation of the expression rounds its exact result to 53         *)
(* significant bits, ties to the even mantissa, and round(x, 1) rounds the *)
(* exact value of the double x to the nearest tenth, ties to even.  The    *)
(* operators below do that arithmetic exactly on natural numbers held as   *)
(* sequences of limbs, least significant limb first, no leading zero limb. *)

\* one limb holds 15 bits
LimbBase == 32768

\* a double has 53 significant bits
MantissaBits == 53

\* bits the dividend is shifted by before a division, so that the quotient
\* has more than MantissaBits bits
DivShift == 75

\* the element of a one-element set; written  TheOne({e(x) : x \in {v}})
\* it computes v once and then e of that value
TheOne(S) == CHOOSE x \in S : TRUE

RECURSIVE BigOfInt(_)
BigOfInt(n) ==
    IF n = 0 THEN <<>> ELSE <<n % LimbBase>> \o BigOfInt(n \div LimbBase)

RECURSIVE BigToInt(_)
BigToInt(a) ==
    IF a = <<>> THEN 0 ELSE Head(a) + LimbBase * BigToInt(Tail(a))

\* a without its leading zero limbs
BigNorm(a0) ==
    TheOne({SubSeq(a, 1, Cardinality({i \in 1..Len(a) :
                            \E j \in i..Len(a) : a[j] # 0})) :
               a \in {a0}})

\* a * k + carry, for 0 <= k < LimbBase
RECURSIVE BigMulCarry(_, _, _)
BigMulCarry(a, k, carry) ==
    IF a = <<>> THEN BigOfInt(carry)
    ELSE TheOne({
           <<t % LimbBase>> \o BigMulCarry(Tail(a), k, t \div LimbBase) :
           t \in {Head(a) * k + carry}})

BigMulSmall(a0, k) == TheOne({BigNorm(BigMulCarry(a, k, 0)) : a \in {a0}})

\* quotient q and remainder r of a by d, for 0 < d < LimbBase
RECURSIVE BigDivSmall(_, _)
BigDivSmall(a, d) ==
    IF a = <<>> THEN [q |-> <<>>, r |-> 0]
    ELSE TheOne({
           LET t  == hi.r * LimbBase + Head(a)
               ql == t \div d
           IN [q |-> IF hi.q = <<>> /\ ql = 0 THEN <<>> ELSE <<ql>> \o hi.q,
               r |-> t % d] :
           hi \in {BigDivSmall(Tail(a), d)}})

RECURSIVE BigAddSmall(_, _)
BigAddSmall(a, k) ==
    IF k = 0 THEN a
    ELSE IF a = <<>> THEN BigOfInt(k)
    ELSE TheOne({
           <<t % LimbBase>> \o BigAddSmall(Tail(a), t \div LimbBase) :
           t \in {Head(a) + k}})

\* a - b - borrow, for a >= b + borrow and Len(a) = Len(b); leading zero
\* limbs are kept
RECURSIVE BigSubBorrow(_, _, _)
BigSubBorrow(a, b, borrow) ==
    IF a = <<>> THEN <<>>
    ELSE TheOne({
           <<IF t < 0 THEN t + LimbBase ELSE t>>
               \o BigSubBorrow(Tail(a), Tail(b), IF t < 0 THEN 1 ELSE 0) :
           t \in {Head(a) - Head(b) - borrow}})

\* a - b, for a >= b
BigSub(a, b0) ==
    TheOne({BigNorm(BigSubBorrow(a, b, 0)) :
               b \in {b0 \o [i \in 1..(Len(a) - Len(b0)) |-> 0]}})

\* a < b
BigLess(a0, b0) ==
    TheOne({
        IF Len(a) # Len(b) THEN Len(a) < Len(b)
        ELSE \E i \in 1..Len(a) :
                /\ a[i] < b[i]
                /\ \A j \in (i + 1)..Len(a) : a[j] = b[j] :
        a \in {a0}, b \in {b0}})

\* 2^k for 0 <= k < 15
RECURSIVE SmallPow2(_)
SmallPow2(k) == IF k = 0 THEN 1 ELSE 2 * SmallPow2(k - 1)

\* a * 2^k
BigShl(a, k) ==
    IF a = <<>> THEN a
    ELSE [i \in 1..(k \div 15) |-> 0] \o BigMulSmall(a, SmallPow2(k % 15))

\* the number of bits of n, for 0 <= n < LimbBase
SmallBitLen(n) == Cardinality({k \in 0..14 : SmallPow2(k) <= n})

BigBitLen(a) ==
    IF a = <<>> THEN 0 ELSE 15 * (Len(a) - 1) + SmallBitLen(a[Len(a)])

\* a shifted right by k > 0 bits: the quotient q, the last bit shifted out
\* (guard) and whether anything below that bit was not zero (sticky)
BigShrGS(a, k) ==
    LET w    == k \div 15
        b    == k % 15
        n    == IF w < Len(a) THEN w ELSE Len(a)
        low  == SubSeq(a, 1, n)
        rest == SubSeq(a, n + 1, Len(a))
        lowNonZero(upTo) == \E i \in 1..upTo : low[i] # 0
    IN IF b = 0
       THEN [q |-> rest,
             guard  |-> w <= Len(a) /\ a[w] >= LimbBase \div 2,
             sticky |-> IF w <= Len(a)
                        THEN a[w] % (LimbBase \div 2) # 0 \/ lowNonZero(w - 1)
                        ELSE a # <<>>]
       ELSE TheOne({
              LET half == SmallPow2(b - 1)
              IN [q |-> dr.q,
                  guard  |-> dr.r >= half,
                  sticky |-> dr.r % half # 0 \/ lowNonZero(n)] :
              dr \in {BigDivSmall(rest, SmallPow2(b))}})

\* the integer nearest to (a + s) / 2^k, ties to the even one, where
\* 0 <= s < 1 and s > 0 exactly when sticky;  k >= 0
RoundShr(a0, k, sticky) ==
    IF k = 0 THEN a0
    ELSE TheOne({
           TheOne({
               LET odd == s.q # <<>> /\ s.q[1] % 2 = 1
               IN IF s.guard /\ (s.sticky \/ sticky \/ odd)
                  THEN BigAddSmall(s.q, 1) ELSE s.q :
               s \in {BigShrGS(a, k)}}) :
           a \in {a0}})

\* the double nearest to (m + s) / 2^e, as [m, e] with m of at most
\* MantissaBits bits (or 2^MantissaBits after a carry)
FloatRound(m0, e, sticky) ==
    TheOne({
        TheOne({
            IF k <= 0 THEN [m |-> m, e |-> e]
            ELSE [m |-> RoundShr(m, k, sticky), e |-> e - k] :
            k \in {BigBitLen(m) - MantissaBits}}) :
        m \in {m0}})

\* the double  n / d,  for naturals n and 0 < d < LimbBase
FloatDiv(n, d) ==
    TheOne({
        TheOne({FloatRound(dr.q, DivShift, dr.r # 0) :
                   dr \in {BigDivSmall(num, d)}}) :
        num \in {BigShl(BigOfInt(n), DivShift)}})

\* 1 - q < 0 ?
FloatAboveOne(q) == BigLess(BigShl(<<1>>, q.e), q.m)

\* the double  |1 - q|
FloatOneMinusAbs(q0) ==
    TheOne({
        TheOne({
            FloatRound(IF BigLess(one, q.m) THEN BigSub(q.m, one)
                       ELSE BigSub(one, q.m), q.e, FALSE) :
            one \in {BigShl(<<1>>, q.e)}}) :
        q \in {q0}})

\* the double  r * 100
FloatTimes100(r0) ==
    TheOne({FloatRound(BigMulSmall(r.m, 100), r.e, FALSE) : r \in {r0}})

\* |round(x, 1)| in tenths
RoundTenths(x0) ==
    TheOne({BigToInt(RoundShr(BigMulSmall(x.m, 10), x.e, FALSE)) :
               x \in {x0}})

\* round((1 - parallel_minutes/sequential_minutes) * 100, 1)
\*     if sequential_minutes > 0 else 0,   in tenths of a percent.
\* parallel_minutes is a multiple of 0.5 and exact as a double, so the
\* quotient is the double nearest to (par10 / 5) / (2 * seqMin).
TimeSavings10(seqMin, par10) ==
    IF seqMin > 0
    THEN TheOne({
           LET t == RoundTenths(FloatTimes100(FloatOneMinusAbs(q)))
           IN IF FloatAboveOne(q) THEN 0 - t ELSE t :
           q \in {FloatDiv(par10 \div 5, 2 * seqMin)}})
    ELSE 0

EstimateMigrationDuration(phs) ==
    LET total == TotalContainers(phs)
        seqMin == total * BaseTimePerContainer
        par10 == ParallelMinutes10(phs)
    IN [total_containers |-> total,
        estimated_sequential_minutes |-> seqMin,
        estimated_parallel_minutes |-> ToInt(par10),
        time_savings_percent10 |-> TimeSavings10(seqMin, par10)]

----------------------------------------------------------------------------
(* _analyze_container_links.  A link is a string, modelled as the sequence *)
(* of its characters; the identifiers of the model are one character long. *)

\* Bound on the length of a link string.
MaxLinkLen == 2

\* Bound on the (container, source) pairs recorded from links.
MaxLinkFacts == 3

LinkChars == {"/", ":"} \cup Names

\* parts[0] of link.split(':')
FirstPart(link) ==
    SubSeq(link, 1, Min({i \in 1..Len(link) : link[i] = ":"}) - 1)

\* cs.lstrip('/')
RECURSIVE LStrip(_)
LStrip(cs) == IF cs # <<>> /\ Head(cs) = "/" THEN LStrip(Tail(cs)) ELSE cs

\* the string spelled by at most one character
NameOf(cs) == IF cs = <<>> THEN "" ELSE cs[1]

\* source_container of a link that contains ':'
LinkSource(link) == LStrip(FirstPart(link))

\* if ':' in link: ... self.container_dependencies[container_name].add(...)
RecordLink(d, c, link) ==
    IF ":" \in Range(link)
    THEN DictUpdate(d, c, {NameOf(LinkSource(link))})
    ELSE d

\* the link strings whose source, if any, is an identifier of the model
LinkInputs ==
    {link \in UNION {[1..k -> LinkChars] : k \in 0..MaxLinkLen} :
        ":" \in Range(link) => Len(LinkSource(link)) <= 1}

----------------------------------------------------------------------------
(* The state after DependencyMapper.__init__; the daemon's container list  *)
(* is the input of the run.                                                *)

Init ==
    /\ pc = "analyze"
    /\ listing \in {SubSeq(ListingOrder, 1, k) : k \in 0..Len(ListingOrder)}
    /\ containers = <<>>
    /\ container_dependencies = EmptyDict
    /\ network_dependencies = EmptyDict
    /\ volume_dependencies = EmptyDict
    /\ compose_dependencies = EmptyDict
    /\ all_dependencies = EmptyDict
    /\ nodes = EmptyBag
    /\ edges = EmptyBag
    /\ keysLeft = <<>>
    /\ stack = <<>>
    /\ cycles = <<>>
    /\ visited = {}
    /\ rec_stack = {}
    /\ path = <<>>
    /\ in_degree = <<>>
    /\ graph = <<>>
    /\ queue = <<>>
    /\ startup_order = <<>>
    /\ phases = <<>>
    /\ parallel_groups = <<>>
    /\ sequential_order = <<>>
    /\ estimated_duration = <<>>

graphVars == <<all_dependencies, nodes, edges>>
dfsVars   == <<keysLeft, stack, cycles, visited, rec_stack, path>>
kahnVars  == <<in_degree, graph, queue, startup_order>>
seqVars   == <<phases, parallel_groups, sequential_order,
               estimated_duration>>
factVars  == <<container_dependencies, network_dependencies,
               volume_dependencies, compose_dependencies>>

\* One iteration of the loop of analyze_container_dependencies: register the
\* container, then record what the five _analyze_* helpers find for it.
\*   net: the names the daemon's networks give for the containers sharing a
\*        network: non-empty, never the container itself, listed or not
\*   vol: the containers that share a volume or bind mount, taken from a
\*        fresh containers.list(): never the container itself, in the
\*        listing of the loop or not
\*   ctr: env references, labels, and legacy links, whose source may be any
\*        string: the container itself or the empty string included
\*   raised: a label names a target that is not hashable (a JSON list or
\*        object): container_dependencies[c] creates the key, .add raises
\*        TypeError, and the helper swallows it; the key stays, with the
\*        targets recorded before
\*   room: what the bound MaxFacts leaves for this container
AnalyzeContainer ==
    /\ pc = "analyze"
    /\ listing # <<>>
    /\ \E c \in {Head(listing)}, room \in {MaxFacts - NumFacts} :
         \E net \in SUBSET (Names \ {c}), vol \in SUBSET (Names \ {c}),
            ctr \in SUBSET Idents, raised \in BOOLEAN :
            /\ Cardinality(net) + Cardinality(vol) + Cardinality(ctr) <= room
            /\ LET newNet == DictAddAll(network_dependencies, c, net)
                   newVol == DictAddAll(volume_dependencies, c, vol)
                   newCtr == IF raised
                             THEN DictUpdate(container_dependencies, c, ctr)
                             ELSE DictAddAll(container_dependencies, c, ctr)
               IN /\ NumPairs(newNet) - NumPairs(network_dependencies)
                       + NumPairs(newVol) - NumPairs(volume_dependencies)
                       + NumPairs(newCtr) - NumPairs(container_dependencies)
                       <= room
                  /\ containers' = Append(containers, c)
                  /\ network_dependencies' = newNet
                  /\ volume_dependencies' = newVol
                  /\ container_dependencies' = newCtr
    /\ listing' = Tail(listing)
    /\ UNCHANGED <<pc, compose_dependencies, graphVars, dfsVars, kahnVars,
                   seqVars>>

\* One service of a compose file with depends_on / links / volumes_from.
\* The service name is the key of the YAML mapping and the targets are the
\* strings listed: either may be any string, the empty one included.
\*   raised: a listed target is not hashable (a YAML list or mapping):
\*        compose_dependencies[service] creates the key, .add raises
\*        TypeError, and the rest of the file is given up; the key stays,
\*        with the targets recorded before
\*   room: what the bound MaxFacts leaves for this service
AnalyzeComposeService ==
    /\ pc = "analyze"
    /\ listing = <<>>
    /\ \E room \in {MaxFacts - NumFacts}, service \in Idents,
          deps \in SUBSET Idents, raised \in BOOLEAN :
         /\ Cardinality(deps \ compose_dependencies.val[service]) <= room + 1
         /\ LET newDeps ==
                    IF raised
                    THEN DictUpdate(compose_dependencies, service, deps)
                    ELSE DictAddAll(compose_dependencies, service, deps)
            IN /\ newDeps # compose_dependencies
               /\ NumPairs(newDeps) - NumPairs(compose_dependencies) <= room
               /\ compose_dependencies' = newDeps
    /\ UNCHANGED <<pc, listing, containers, container_dependencies,
                   network_dependencies, volume_dependencies, graphVars,
                   dfsVars, kahnVars, seqVars>>

\* build_dependency_graph up to the call of _detect_cycles, whose locals are
\* initialised.
BuildDependencyGraph ==
    /\ pc = "analyze"
    /\ listing = <<>>
    /\ LET all == MergeDependencies
       IN /\ all_dependencies' = all
          /\ nodes' = SetToBag(AllNodes(all))
          /\ edges' = EdgeList(all, all.keys)
          /\ keysLeft' = all.keys
    /\ cycles' = <<>>
    /\ visited' = {}
    /\ rec_stack' = {}
    /\ path' = <<>>
    /\ stack' = <<>>
    /\ pc' = "detect"
    /\ UNCHANGED <<listing, containers, factVars, kahnVars, seqVars>>

\* for node in dependencies.keys(): if node not in visited: dfs(node)
DetectNext ==
    /\ pc = "detect"
    /\ stack = <<>>
    /\ keysLeft # <<>>
    /\ keysLeft' = Tail(keysLeft)
    /\ IF Head(keysLeft) \notin visited
       THEN DfsCall(Head(keysLeft), <<>>)
       ELSE UNCHANGED <<stack, cycles, visited, rec_stack, path>>
    /\ UNCHANGED <<pc, listing, containers, factVars, graphVars, kahnVars,
                   seqVars>>

\* for neighbor in dependencies.get(node, []): dfs(neighbor)
DfsVisit ==
    /\ pc = "detect"
    /\ stack # <<>>
    /\ LET top == stack[Len(stack)]
       IN /\ top.todo # {}
          /\ \E neighbor \in top.todo :
               DfsCall(neighbor,
                       [stack EXCEPT ![Len(stack)].todo = @ \ {neighbor}])
    /\ UNCHANGED <<pc, listing, containers, factVars, graphVars, keysLeft,
                   kahnVars, seqVars>>

\* rec_stack.remove(node); path.pop(); return False
DfsReturn ==
    /\ pc = "detect"
    /\ stack # <<>>
    /\ LET top == stack[Len(stack)]
       IN /\ top.todo = {}
          /\ rec_stack' = rec_stack \ {top.node}
    /\ path' = SubSeq(path, 1, Len(path) - 1)
    /\ stack' = SubSeq(stack, 1, Len(stack) - 1)
    /\ UNCHANGED <<pc, listing, containers, factVars, graphVars, keysLeft,
                   cycles, visited, kahnVars, seqVars>>

\* _detect_cycles returns; _calculate_startup_order builds in_degree, graph
\* and the queue of the nodes with in-degree 0 (all_nodes is a set).
StartupOrderInit ==
    /\ pc = "detect"
    /\ stack = <<>>
    /\ keysLeft = <<>>
    /\ in_degree' = InDegree(all_dependencies)
    /\ graph' = Dependents(all_dependencies)
    /\ queue' \in Perms({n \in AllNodes(all_dependencies) :
                            InDegree(all_dependencies)[n] = 0})
    /\ startup_order' = <<>>
    /\ pc' = "order"
    /\ UNCHANGED <<listing, containers, factVars, graphVars, dfsVars, seqVars>>

\* one iteration of "while queue"
KahnStep ==
    /\ pc = "order"
    /\ queue # <<>>
    /\ LET node == Head(queue)
           r    == Release(in_degree, Tail(queue), graph[node])
       IN /\ startup_order' = Append(startup_order, node)
          /\ in_degree' = r.deg
          /\ queue' = r.q
    /\ UNCHANGED <<pc, listing, containers, factVars, graphVars, dfsVars,
                   graph, seqVars>>

\* return startup_order; build_dependency_graph returns
StartupOrderReturn ==
    /\ pc = "order"
    /\ queue = <<>>
    /\ pc' = "built"
    /\ UNCHANGED <<listing, containers, factVars, graphVars, dfsVars,
                   kahnVars, seqVars>>

\* One iteration of "for link in links" of _analyze_container_links for the
\* container at the head of the listing (registered by
\* analyze_container_dependencies before its helpers run).
AnalyzeContainerLink ==
    /\ pc = "analyze"
    /\ listing # <<>>
    /\ LET c == Head(listing)
       IN /\ \E link \in LinkInputs :
               /\ NumPairs(RecordLink(container_dependencies, c, link))
                    <= MaxLinkFacts
               /\ container_dependencies' =
                      RecordLink(container_dependencies, c, link)
          /\ containers' = IF c \in Range(containers) THEN containers
                           ELSE Append(containers, c)
    /\ UNCHANGED <<pc, listing, network_dependencies, volume_dependencies,
                   compose_dependencies, graphVars, dfsVars, kahnVars,
                   seqVars>>

\* the links of the container are exhausted: on to the next container
AnalyzeContainerLinksDone ==
    /\ pc = "analyze"
    /\ listing # <<>>
    /\ containers' = IF Head(listing) \in Range(containers) THEN containers
                     ELSE Append(containers, Head(listing))
    /\ listing' = Tail(listing)
    /\ UNCHANGED <<pc, factVars, graphVars, dfsVars, kahnVars, seqVars>>

GenerateMigrationSequence ==
    /\ pc = "built"
    /\ LET levels == DependencyLevels(startup_order)
           lvls   == Sorted(DOMAIN levels)
           base   == IF startup_order = <<>>
                     THEN <<FallbackPhase(containers)>>
                     ELSE LevelPhases(levels, lvls)
           cc     == CycleContainers(cycles)
       IN /\ sequential_order' =
                 IF startup_order = <<>> THEN containers ELSE startup_order
          /\ parallel_groups' =
                 IF startup_order = <<>> THEN <<>>
                 ELSE ParallelGroups(levels, lvls)
          /\ IF cycles # <<>> /\ cc # {}
             THEN \E cs \in Perms(cc) :
                      phases' = <<CyclePhase(cs, cycles)>> \o base
             ELSE phases' = base
    /\ estimated_duration' = EstimateMigrationDuration(phases')
    /\ pc' = "done"
    /\ UNCHANGED <<listing, containers, factVars, graphVars, dfsVars, kahnVars>>

Next ==
    \/ AnalyzeContainer
    \/ AnalyzeComposeService
    \/ BuildDependencyGraph
    \/ DetectNext
    \/ DfsVisit
    \/ DfsReturn
    \/ StartupOrderInit
    \/ KahnStep
    \/ StartupOrderReturn
    \/ GenerateMigrationSequence

Spec == Init /\ [][Next]_vars

----------------------------------------------------------------------------
(* Specifications that start when the analysis has returned, with the      *)
(* recorded facts drawn from bounded sets.                                 *)

\* Bound on the recorded pairs of GraphSpec.
MaxEdges == 4

\* Bound on the recorded pairs of LoopSpec.
MaxLoopEdges == 4

DepVals ==
    {[n \in Idents |-> IF n \in Names THEN f[n] ELSE {}] :
        f \in [Names -> SUBSET Names]}

PairCount(v) == Cardinality({p \in Names \X Names : p[2] \in v[p[1]]})

\* dicts whose keys were inserted in any order
AnyOrderDicts(max) ==
    UNION {{[keys |-> k, val |-> v] :
               k \in Perms({n \in Names : v[n] # {}})} :
           v \in {w \in DepVals : PairCount(w) <= max}}

\* dicts whose keys were inserted in the order of the listing
ListedOrderDicts(max) ==
    {[keys |-> SortedNames({n \in Names : v[n] # {}}), val |-> v] :
        v \in {w \in DepVals : PairCount(w) <= max}}

\* what build_dependency_graph and generate_migration_sequence have not
\* written yet
OutputsInit ==
    /\ all_dependencies = EmptyDict
    /\ nodes = EmptyBag
    /\ edges = EmptyBag
    /\ keysLeft = <<>>
    /\ stack = <<>>
    /\ cycles = <<>>
    /\ visited = {}
    /\ rec_stack = {}
    /\ path = <<>>
    /\ in_degree = <<>>
    /\ graph = <<>>
    /\ queue = <<>>
    /\ startup_order = <<>>
    /\ phases = <<>>
    /\ parallel_groups = <<>>
    /\ sequential_order = <<>>
    /\ estimated_duration = <<>>

\* three containers analysed; label/link/env and compose dependencies
GraphInit ==
    /\ pc = "analyze"
    /\ listing = <<>>
    /\ containers = ListingOrder
    /\ container_dependencies \in ListedOrderDicts(MaxEdges)
    /\ compose_dependencies \in AnyOrderDicts(MaxEdges)
    /\ PairCount(container_dependencies.val)
         + PairCount(compose_dependencies.val) <= MaxEdges
    /\ network_dependencies = EmptyDict
    /\ volume_dependencies = EmptyDict
    /\ OutputsInit

\* no container listed; compose dependencies only
LoopInit ==
    /\ pc = "analyze"
    /\ listing = <<>>
    /\ containers = <<>>
    /\ container_dependencies = EmptyDict
    /\ compose_dependencies \in AnyOrderDicts(MaxLoopEdges)
    /\ network_dependencies = EmptyDict
    /\ volume_dependencies = EmptyDict
    /\ OutputsInit

\* build_dependency_graph(); generate_migration_sequence()
BuildAndGenerate ==
    \/ BuildDependencyGraph
    \/ DetectNext
    \/ DfsVisit
    \/ DfsReturn
    \/ StartupOrderInit
    \/ KahnStep
    \/ StartupOrderReturn
    \/ GenerateMigrationSequence

GraphSpec == GraphInit /\ [][BuildAndGenerate]_vars

\* the run in which the containers have legacy links only
LinkNext ==
    \/ AnalyzeContainerLink
    \/ AnalyzeContainerLinksDone
    \/ BuildAndGenerate

LinkSpec == Init /\ [][LinkNext]_vars

\* build_dependency_graph and generate_migration_sequence are synchronous,
\* single-threaded calls: whenever a step of them is possible, a step is
\* taken.
LoopSpec == LoopInit /\ [][BuildAndGenerate]_vars /\ WF_vars(BuildAndGenerate)

----------------------------------------------------------------------------
(* Graph notions used to state the properties, defined without reference   *)
(* to the algorithms above.                                                *)

\* the (source, target) pairs recorded in any of the four dependency maps
RecordedPairs ==
    {p \in Idents \X Idents :
        p[2] \in container_dependencies.val[p[1]]
                   \cup network_dependencies.val[p[1]]
                   \cup volume_dependencies.val[p[1]]
                   \cup compose_dependencies.val[p[1]]}

\* the edges of the merged graph handed to the detector and the sequencer
DepEdges == {p \in Idents \X Idents : p[2] \in Get(all_dependencies, p[1])}

\* its nodes: every key of the merged map and every target
GraphNodes ==
    Range(all_dependencies.keys)
        \cup {p[1] : p \in DepEdges} \cup {p[2] : p \in DepEdges}

RECURSIVE Closure(_)
Closure(S) ==
    LET next == S \cup {p[2] : p \in {q \in DepEdges : q[1] \in S}}
    IN IF next = S THEN S ELSE Closure(next)

\* the nodes reachable from n along one or more edges
Descendants(n) == Closure({p[2] : p \in {q \in DepEdges : q[1] = n}})

OnCycle(n) == n \in Descendants(n)

HasCycle == \E n \in Idents : OnCycle(n)

Built == pc \in {"built", "done"}

NoRepeat(s) == Cardinality(Range(s)) = Len(s)

\* the phases produced by the level-based branch
LevelPhaseIdx ==
    IF startup_order = <<>> THEN {}
    ELSE {i \in 1..Len(phases) : ~phases[i].special}

----------------------------------------------------------------------------
(* C1: for every acyclic merged graph the startup order contains every     *)
(* graph node exactly once, and every dependency comes before its          *)
(* dependent: index(target) < index(source) for every edge.                *)
C1_TopologicalOrder ==
    (Built /\ ~HasCycle) =>
        /\ Len(startup_order) = BagCardinality(nodes)
        /\ Range(startup_order) = GraphNodes
        /\ NoRepeat(startup_order)
        /\ \A p \in DepEdges :
             Index(startup_order, p[2]) < Index(startup_order, p[1])

C1_Witness ==
    /\ pc = "done"
    /\ ~HasCycle
    /\ Cardinality(DepEdges) >= 2
    /\ Len(startup_order) = 3

(* C2: for every merged graph with a directed cycle (a self-loop included) *)
(* the detector returns a non-empty list and the startup order is strictly *)
(* shorter than the number of graph nodes.                                 *)
C2_CycleReported ==
    (Built /\ HasCycle) =>
        /\ cycles # <<>>
        /\ Len(startup_order) < BagCardinality(nodes)

C2_Witness ==
    /\ pc = "done"
    /\ HasCycle
    /\ \E n \in Names : <<n, n>> \notin DepEdges /\ OnCycle(n)
    /\ startup_order # <<>>

(* C3: for every recorded edge (a depends on b), whatever its origin, if a *)
(* and b are both in level-based phases then the phase of a has a strictly *)
(* greater level than the phase of b.                                      *)
C3_LevelsRespectEveryEdge ==
    pc = "done" =>
        \A p \in RecordedPairs : \A i, j \in LevelPhaseIdx :
            (/\ p[1] \in Range(phases[i].containers)
             /\ p[2] \in Range(phases[j].containers))
            => phases[i].name[2] > phases[j].name[2]

(* C4: the edge list holds exactly one edge for each distinct recorded     *)
(* (source, target) pair of the four maps, and no other edge.              *)
C4_OneEdgePerPair ==
    pc # "analyze" =>
        /\ BagToSet(edges) = RecordedPairs
        /\ \A p \in RecordedPairs : CopiesIn(p, edges) = 1

C4_Witness ==
    /\ pc = "done"
    /\ \E p \in Names \X Names :
         /\ p[2] \in container_dependencies.val[p[1]]
         /\ p[2] \in compose_dependencies.val[p[1]]
         /\ p[2] \in network_dependencies.val[p[1]]
         /\ CopiesIn(p, edges) = 1

(* C5: the node list is the union of all sources and targets of the        *)
(* recorded dependencies without duplicates, so both endpoints of every    *)
(* edge are nodes, also targets that are never a source and targets absent *)
(* from the inventory.                                                     *)
C5_NodesAreEndpoints ==
    pc # "analyze" =>
        /\ BagToSet(nodes) = {p[1] : p \in RecordedPairs}
                               \cup {p[2] : p \in RecordedPairs}
        /\ \A n \in BagToSet(nodes) : CopiesIn(n, nodes) = 1
        /\ \A e \in BagToSet(edges) :
             e[1] \in BagToSet(nodes) /\ e[2] \in BagToSet(nodes)

(* C6: a stored cycle is the slice of the DFS path from the re-encountered *)
(* node to the current node and does not repeat the start node at its end: *)
(* no stored cycle contains a node twice.                                  *)
C6_CycleHasNoRepeat ==
    \A i \in 1..Len(cycles) : NoRepeat(cycles[i])

(* C7: every reported cycle [n0, ..., nk] is a closed walk: each           *)
(* consecutive pair (ni, ni+1) and the wrap-around pair (nk, n0) is a      *)
(* dependency edge.                                                        *)
C7_CycleIsClosedWalk ==
    \A i \in 1..Len(cycles) :
        LET c == cycles[i]
        IN /\ \A k \in 1..(Len(c) - 1) : <<c[k], c[k + 1]>> \in DepEdges
           /\ <<c[Len(c)], c[1]>> \in DepEdges

(* C8: a graph node is in the startup order if and only if no node on a    *)
(* directed cycle is reachable from it (itself included).                  *)
C8_EmittedIffCycleFree ==
    Built =>
        \A n \in GraphNodes :
            n \in Range(startup_order)
              <=> ~(\E m \in {n} \cup Descendants(n) : OnCycle(m))

C8_Witness ==
    /\ pc = "done"
    /\ startup_order # <<>>
    /\ \E n \in GraphNodes :
         /\ ~OnCycle(n)
         /\ \E m \in Descendants(n) : OnCycle(m)
         /\ n \notin Range(startup_order)

(* C9: the phase list starts with a special phase if and only if cycles    *)
(* were reported; that phase is non-parallel, lists each node of the       *)
(* reported cycles exactly once, carries the cycle list, and no other      *)
(* phase is special.                                                       *)
C9_SpecialCyclePhase ==
    pc = "done" =>
        /\ (phases # <<>> /\ phases[1].special) <=> (cycles # <<>>)
        /\ cycles # <<>> =>
             /\ ~phases[1].parallel
             /\ Range(phases[1].containers)
                  = UNION {Range(cycles[i]) : i \in 1..Len(cycles)}
             /\ NoRepeat(phases[1].containers)
             /\ phases[1].cycles = cycles
        /\ \A i \in 2..Len(phases) : ~phases[i].special

C9_Witness ==
    /\ pc = "done"
    /\ Len(cycles) >= 2
    /\ Len(phases) >= 2
    /\ Len(phases[1].containers) >= 2

(* C10: with an empty startup order and a non-empty inventory there is at  *)
(* least one phase, and the fallback phase is non-parallel and holds every *)
(* container of the inventory.                                             *)
C10_FallbackPhase ==
    (pc = "done" /\ startup_order = <<>> /\ containers # <<>>) =>
        /\ Len(phases) >= 1
        /\ LET f == phases[Len(phases)]
           IN /\ ~f.special
              /\ ~f.parallel
              /\ Range(f.containers) = Range(containers)

C10_Witness ==
    /\ pc = "done"
    /\ startup_order = <<>>
    /\ cycles # <<>>
    /\ \E c \in Range(containers) : c \notin GraphNodes

----------------------------------------------------------------------------
(* Helpers for the properties of the migration sequence *)

RECURSIVE SumSeq(_)
SumSeq(q) == IF q = <<>> THEN 0 ELSE Head(q) + SumSeq(Tail(q))

\* every graph node lies on a cycle (and there is a graph node)
AllOnCycle == GraphNodes # {} /\ \A n \in GraphNodes : OnCycle(n)

\* the nodes appearing in the phase list
PhaseNodes == UNION {Range(phases[i].containers) : i \in 1..Len(phases)}

(* C11 as stated: when every graph node lies on a cycle the startup order  *)
(* is empty and the phase list is exactly one phase, the special cycle     *)
(* phase holding those nodes, with no fallback or level phase.             *)
C11_OnlyCyclePhase ==
    (pc = "done" /\ AllOnCycle) =>
        /\ startup_order = <<>>
        /\ Len(phases) = 1
        /\ phases[1].special
        /\ Range(phases[1].containers) = GraphNodes

(* C12: with two or more containers in the inventory and no dependency of  *)
(* any kind, there is a single phase holding all of them, marked parallel, *)
(* with a matching parallel-group record.                                  *)
C12_IndependentParallel ==
    (pc = "done" /\ Len(containers) >= 2 /\ RecordedPairs = {}) =>
        /\ Len(phases) = 1
        /\ Range(phases[1].containers) = Range(containers)
        /\ phases[1].parallel
        /\ Len(parallel_groups) = 1
        /\ parallel_groups[1].phase = 1
        /\ parallel_groups[1].containers = phases[1].containers

(* C13: for a chain x depends on y, y depends on z (recorded through any   *)
(* dependency kind) and no other edge: no cycles, startup order [z, y, x], *)
(* and exactly the phases Phase 1 = [z], Phase 2 = [y], Phase 3 = [x],     *)
(* none parallel.                                                          *)
C13_ChainPhases ==
    pc = "done" =>
        \A x, y, z \in Idents :
            (/\ Cardinality({x, y, z}) = 3
             /\ RecordedPairs = {<<x, y>>, <<y, z>>})
            => /\ cycles = <<>>
               /\ startup_order = <<z, y, x>>
               /\ Len(phases) = 3
               /\ \A k \in 1..3 :
                    /\ phases[k].name = <<"Phase", k>>
                    /\ phases[k].containers = <<(<<z, y, x>>)[k]>>
                    /\ ~phases[k].parallel

(* C14: the phases are pairwise disjoint (special, fallback and level      *)
(* phases included) and no node appears twice within one phase.            *)
C14_PhasesDisjoint ==
    pc = "done" =>
        /\ \A i, j \in 1..Len(phases) :
             i # j => Range(phases[i].containers)
                        \cap Range(phases[j].containers) = {}
        /\ \A i \in 1..Len(phases) : NoRepeat(phases[i].containers)

(* C15: with no recorded dependency and an empty inventory every output is *)
(* empty: nodes, edges, cycles, startup order, phases, parallel_groups and *)
(* sequential_order.                                                       *)
C15_EmptyRun ==
    (pc = "done" /\ containers = <<>> /\ RecordedPairs = {}) =>
        /\ nodes = EmptyBag
        /\ edges = EmptyBag
        /\ cycles = <<>>
        /\ startup_order = <<>>
        /\ phases = <<>>
        /\ parallel_groups = <<>>
        /\ sequential_order = <<>>

\* sum over the phases of 3.5 for a parallel phase and 5 x (number of
\* nodes) for a non-parallel one, in tenths of a minute
ClaimedParallel10 ==
    SumSeq([i \in 1..Len(phases) |->
               IF phases[i].parallel THEN 35
               ELSE 50 * Len(phases[i].containers)])

(* C17 as stated: estimated_parallel_minutes equals the sum over the       *)
(* phases of 3.5 per parallel phase and 5 x nodes per non-parallel phase   *)
(* (3.5 for a single parallel phase of 3 nodes).                           *)
C17_ParallelEstimateExact ==
    pc = "done" =>
        10 * estimated_duration.estimated_parallel_minutes = ClaimedParallel10

(* C17 amended: estimated_parallel_minutes equals the integer part of that *)
(* sum; for a single parallel phase of 3 nodes it is 3 against a           *)
(* sequential estimate of 15.                                              *)
C17_ParallelEstimateTruncated ==
    pc = "done" =>
        /\ estimated_duration.estimated_parallel_minutes
             = ClaimedParallel10 \div 10
        /\ (/\ Len(phases) = 1
            /\ phases[1].parallel
            /\ Len(phases[1].containers) = 3)
           => /\ estimated_duration.estimated_parallel_minutes = 3
              /\ estimated_duration.estimated_sequential_minutes = 15

C17_Witness ==
    /\ pc = "done"
    /\ Len(phases) = 1
    /\ phases[1].parallel
    /\ Len(phases[1].containers) = 3
    /\ estimated_duration.estimated_parallel_minutes = 3

(* C18: estimated_sequential_minutes is 5 times the number of nodes        *)
(* handled, each node counted once: total_containers is the number of      *)
(* distinct nodes in the phase list.                                       *)
C18_EachNodeCountedOnce ==
    pc = "done" =>
        /\ estimated_duration.total_containers = Cardinality(PhaseNodes)
        /\ estimated_duration.estimated_sequential_minutes
             = 5 * Cardinality(PhaseNodes)

(* C19: no division by zero: with no node in the phases the savings are 0; *)
(* the parallel estimate never exceeds the sequential one, so the savings  *)
(* are never negative.                                                     *)
C19_SavingsDefinedAndNonNegative ==
    pc = "done" =>
        /\ estimated_duration.estimated_sequential_minutes = 0
             => estimated_duration.time_savings_percent10 = 0
        /\ ParallelMinutes10(phases)
             <= 10 * estimated_duration.estimated_sequential_minutes
        /\ estimated_duration.estimated_parallel_minutes
             <= estimated_duration.estimated_sequential_minutes
        /\ estimated_duration.time_savings_percent10 >= 0

C19_Witness ==
    /\ pc = "done"
    /\ phases # <<>>
    /\ estimated_duration.estimated_sequential_minutes = 0
    /\ estimated_duration.time_savings_percent10 = 0

(* C20: on every finite dependency graph, cyclic or not, both loops       *)
(* terminate: the node loop of the detector eventually finishes with the   *)
(* DFS unwound, and the ready queue of the sequencer eventually is empty.  *)
C20_LoopsTerminate ==
    /\ (pc = "detect") ~> (pc = "detect" /\ keysLeft = <<>> /\ stack = <<>>)
    /\ (pc = "order") ~> (pc = "order" /\ queue = <<>>)
    /\ (pc = "detect") ~> (pc = "built")

C20_Witness ==
    /\ pc = "built"
    /\ HasCycle
    /\ Len(cycles) >= 2
    /\ queue = <<>>
    /\ stack = <<>>

----------------------------------------------------------------------------
(* Outputs compared between runs *)

\* a cycle as its set of edges: the same for every rotation
CycleEdges(c) == {<<c[k], c[k + 1]>> : k \in 1..(Len(c) - 1)}

CycleSet(cyc) == {CycleEdges(cyc[i]) : i \in 1..Len(cyc)}

\* node membership per phase
Membership(phs) ==
    {<<phs[i].name, Range(phs[i].containers)>> : i \in 1..Len(phs)}

RefCycles == RefDetectCycles(MergeDependencies)

RefOrder == RefStartupOrder(MergeDependencies)

(* C16: whatever the iteration order of keys and sets, a run     *)
(* yields the same node set, edge set, set of cycles (up to rotation) and  *)
(* node membership per phase as the run that iterates in name order.       *)
C16_SameOutputsInEveryOrder ==
    pc = "done" =>
        /\ BagToSet(nodes) = AllNodes(KeySorted(MergeDependencies))
        /\ BagToSet(edges) = BagToSet(EdgeList(KeySorted(MergeDependencies),
                                 KeySorted(MergeDependencies).keys))
        /\ CycleSet(cycles) = CycleSet(RefCycles)
        /\ Membership(phases) = Membership(RefPhases(RefOrder, RefCycles))

----------------------------------------------------------------------------
(* Properties of the traversals *)

\* the nodes of the frames of the dfs call stack, outermost first
StackNodes == [i \in 1..Len(stack) |-> stack[i].node]

(* C21: the detector and the sequencer never reach an error state on       *)
(* cyclic input: throughout the DFS rec_stack is the set of nodes of path, *)
(* path holds no node twice and ends with the node of the running call, so *)
(* path.index(node) for a node in rec_stack, rec_stack.remove(node) and    *)
(* path.pop() succeed, also for targets that are not keys; in the queue    *)
(* loop every node taken or decremented has its counter.                   *)
C21_TraversalsNeverFail ==
    /\ pc = "detect" =>
         /\ rec_stack = Range(path)
         /\ NoRepeat(path)
         /\ path = StackNodes
    /\ pc = "order" =>
         /\ Range(queue) \subseteq DOMAIN graph
         /\ \A n \in DOMAIN graph : Range(graph[n]) \subseteq DOMAIN in_degree

C21_Witness ==
    /\ pc = "detect"
    /\ cycles # <<>>
    /\ Len(stack) >= 2
    /\ stack[Len(stack)].node \notin Range(all_dependencies.keys)
    /\ stack[Len(stack)].node \in rec_stack

(* C22: a self-loop that reaches the merged graph is reported as a cycle   *)
(* of length 1, a stored sequence holding the node once, and the node is   *)
(* absent from the startup order.                                          *)
C22_SelfLoopIsCycleOfLengthOne ==
    Built =>
        \A n \in Idents :
            <<n, n>> \in DepEdges =>
                /\ \E i \in 1..Len(cycles) : cycles[i] = <<n>>
                /\ n \notin Range(startup_order)

\* the level phases, in order
LevelPhaseList == SelectSeq(phases, LAMBDA ph : ~ph.special)

(* C24: in the level-based branch a phase is marked parallel if and only   *)
(* if it holds more than one node, and parallel_groups holds exactly one   *)
(* record per parallel phase, with that phase's 1-indexed number and its   *)
(* container list, and none for a non-parallel phase.                      *)
C24_ParallelIffSeveralNodes ==
    (pc = "done" /\ startup_order # <<>>) =>
        LET lp  == LevelPhaseList
            par == {k \in 1..Len(lp) : lp[k].parallel}
        IN /\ \A k \in 1..Len(lp) :
                lp[k].parallel <=> Len(lp[k].containers) > 1
           /\ Len(parallel_groups) = Cardinality(par)
           /\ {<<parallel_groups[i].phase, parallel_groups[i].containers>> :
                  i \in 1..Len(parallel_groups)}
                = {<<k, lp[k].containers>> : k \in par}

C24_Witness ==
    /\ pc = "done"
    /\ startup_order # <<>>
    /\ Len(LevelPhaseList) = 2
    /\ ~LevelPhaseList[1].parallel
    /\ LevelPhaseList[2].parallel
    /\ Len(parallel_groups) = 1
    /\ parallel_groups[1].phase = 2

\* the step is the call dfs(n) made from the body of the running call
ArrivesAt(n) ==
    /\ stack # <<>>
    /\ Len(stack') >= Len(stack)
    /\ n \in stack[Len(stack)].todo
    /\ stack'[Len(stack)].todo = stack[Len(stack)].todo \ {n}

(* C25: during one run of the detector each node is entered (marked        *)
(* visited and pushed on the path) at most once: a node is entered only    *)
(* when it is not yet visited, visited never shrinks, and an arrival at a  *)
(* fully explored node, from another path or as another starting node,     *)
(* returns at once: nothing is explored again and no cycle is emitted.     *)
C25_EnteredAtMostOnce ==
    [][(pc = "detect" /\ pc' = "detect") =>
          /\ visited \subseteq visited'
          /\ Len(path') > Len(path) =>
               /\ path'[Len(path')] \notin visited
               /\ path'[Len(path')] \in visited'
          /\ \A n \in visited \ rec_stack :
               ArrivesAt(n) =>
                   /\ Len(stack') = Len(stack)
                   /\ UNCHANGED <<cycles, visited, rec_stack, path>>
          /\ (stack = <<>> /\ keysLeft # <<>> /\ Head(keysLeft) \in visited) =>
               UNCHANGED <<stack, cycles, visited, rec_stack, path>>
      ]_vars

C25_Witness ==
    /\ pc = "detect"
    /\ Len(stack) = 1
    /\ stack[1].todo = {}
    /\ cycles = <<>>
    /\ visited = Names
    /\ \E n, m \in Names \ {stack[1].node} :
         /\ n # m
         /\ DepEdges = {<<stack[1].node, n>>, <<stack[1].node, m>>, <<m, n>>}

\* the strongly connected component of n
Component(n) ==
    {n} \cup {m \in Idents : m \in Descendants(n) /\ n \in Descendants(m)}

(* C26: for every strongly connected component of the merged graph that    *)
(* contains a cycle (several nodes, or a self-loop) the detector reports   *)
(* at least one cycle whose nodes all belong to that component, whatever   *)
(* the iteration order.                                                    *)
C26_CyclePerComponent ==
    pc \in {"order", "built", "done"} =>
        \A n \in Idents :
            OnCycle(n) =>
                \E i \in 1..Len(cycles) : Range(cycles[i]) \subseteq Component(n)

C26_Witness ==
    /\ pc = "done"
    /\ \E n, m \in Names :
         /\ OnCycle(n) /\ OnCycle(m) /\ m \notin Component(n)
         /\ ~OnCycle(all_dependencies.keys[1])
         /\ {n, m} \subseteq Descendants(all_dependencies.keys[1])
    /\ Len(cycles) >= 2

----------------------------------------------------------------------------
(* Properties of the levels and of the queue loop *)

\* level(n) = 1 + max(level(d) for d in direct_dependencies(n)), 0 without
\* dependencies, over the merged graph (defined when no cycle is reachable)
RECURSIVE LongestPath(_)
LongestPath(n) ==
    LET deps == {p[2] : p \in {q \in DepEdges : q[1] = n}}
    IN IF deps = {} THEN 0
       ELSE 1 + Max({LongestPath(d) : d \in deps})

(* C27: the single-pass level assignment gives every node of the startup   *)
(* order the level 0 if it has no direct dependency and otherwise 1 + the  *)
(* maximum level of its direct dependencies in the merged graph (the       *)
(* second-pass longest-path formula), every direct dependency having been  *)
(* processed before the node is levelled.                                  *)
C27_LevelsAreLongestPath ==
    (pc = "done" /\ startup_order # <<>>) =>
        \A n \in Range(startup_order) :
            /\ \A p \in DepEdges :
                 p[1] = n =>
                     /\ p[2] \in Range(startup_order)
                     /\ Index(startup_order, p[2]) < Index(startup_order, n)
            /\ \A k \in 1..Len(LevelPhaseList) :
                 n \in Range(LevelPhaseList[k].containers)
                   => LevelPhaseList[k].name[2] - 1 = LongestPath(n)

(* C28: after the whole run every container of the inventory appears in    *)
(* at least one phase, also a container without recorded dependency and a  *)
(* container that depends on a cycle member without being on a cycle.      *)
C28_EveryContainerPlanned ==
    pc = "done" => Range(containers) \subseteq PhaseNodes

\* the position of the last emitted dependency of n: when n became ready
ReadyAt(n) ==
    Max({0} \cup {Index(startup_order, d) : d \in Get(all_dependencies, n)})

(* C29: throughout the queue loop no in-degree counter is negative (it is  *)
(* the number of dependencies not emitted yet), no node is enqueued twice, *)
(* the startup order holds no node twice, and nodes are emitted in the     *)
(* FIFO order in which they became ready.                                  *)
C29_KahnLoopInvariant ==
    pc \in {"order", "built", "done"} =>
        LET s == startup_order \o queue
        IN /\ \A n \in DOMAIN in_degree :
                /\ in_degree[n] >= 0
                /\ in_degree[n] = Cardinality(Get(all_dependencies, n)
                                                \ Range(startup_order))
           /\ NoRepeat(s)
           /\ \A i \in 1..Len(s) :
                Get(all_dependencies, s[i]) \subseteq Range(startup_order)
           /\ \A i, j \in 1..Len(s) :
                i < j => ReadyAt(s[i]) <= ReadyAt(s[j])

C29_Witness ==
    /\ pc = "order"
    /\ startup_order # <<>>
    /\ Len(queue) >= 2
    /\ ReadyAt(queue[1]) < ReadyAt(queue[Len(queue)])
    /\ \E n \in DOMAIN in_degree : in_degree[n] > 0

(* C30: when the startup order is non-empty the level phases together      *)
(* hold each node of the startup order exactly once and no other node,     *)
(* they are named Phase 1..Phase k without a gap, sequential_order is the  *)
(* startup order, and no node of the special cycle phase is in a level     *)
(* phase.                                                                  *)
C30_LevelPhasesPartitionOrder ==
    (pc = "done" /\ startup_order # <<>>) =>
        LET lp == LevelPhaseList
            held == UNION {Range(lp[k].containers) : k \in 1..Len(lp)}
        IN /\ held = Range(startup_order)
           /\ NoRepeat(startup_order)
           /\ SumSeq([k \in 1..Len(lp) |-> Len(lp[k].containers)])
                = Len(startup_order)
           /\ \A k \in 1..Len(lp) :
                lp[k].name = <<"Phase", k>> /\ lp[k].containers # <<>>
           /\ sequential_order = startup_order
           /\ \A i \in 1..Len(phases) :
                phases[i].special => Range(phases[i].containers) \cap held = {}

C30_Witness ==
    /\ pc = "done"
    /\ startup_order # <<>>
    /\ cycles # <<>>
    /\ Len(LevelPhaseList) >= 2
    /\ Len(phases) = Len(LevelPhaseList) + 1

----------------------------------------------------------------------------
(* C23: relationship facts with an empty-string source or target are       *)
(* dropped when the graph is built: after build_dependency_graph no node   *)
(* is the empty string and no edge has an empty endpoint.                  *)
C23_EmptyIdentifiersDropped ==
    pc # "analyze" =>
        /\ "" \notin BagToSet(nodes)
        /\ \A e \in BagToSet(edges) : e[1] # "" /\ e[2] # ""

====
